---- MODULE Spec2Model ----
(***************************************************************************)
(* Model of ujutils.common: mlsorted (ML-convention sort) and              *)
(* encode_labels (multi-class / multi-label label encoding), and of        *)
(* ujutils.directory: the Directory class (scan, labels, filter, table).   *)
(*                                                                         *)
(* A Python str is a sequence of one-character strings, so that lower(),   *)
(* replace(), split() and natsort's chunking are computed character by     *)
(* character as the library code computes them.                            *)
(***************************************************************************)
EXTENDS Integers, Sequences, FiniteSets, TLC

\* arg: the list the caller passes; pc: "start" before the call, "done" after;
\* ret: what the call returned or raised
\* fs: the file system below a Directory's root; dir: the Directory object;
\* out: what the last operation on the Directory returned or raised
VARIABLES arg, pc, ret, fs, dir, out

vars == <<arg, pc, ret, fs, dir, out>>

(***************************************************************************)
(* Bounds of the model.                                                    *)
(***************************************************************************)
\* longest input list handed to mlsorted / encode_labels
MaxLen == 3
\* largest n of the 'NG<n>' labels
MaxN == 10

(***************************************************************************)
(* Characters.  Alphabet lists the characters the model uses in increasing *)
(* code-point order; Python compares str values code point by code point. *)
(***************************************************************************)
Alphabet ==
    << " ", ",", "-", ".", "/",
       "0", "1", "2", "3", "4", "5", "6", "7", "8", "9",
       "A", "B", "C", "D", "E", "F", "G", "H", "I", "J", "K", "L", "M",
       "N", "O", "P", "Q", "R", "S", "T", "U", "V", "W", "X", "Y", "Z",
       "_",
       "a", "b", "c", "d", "e", "f", "g", "h", "i", "j", "k", "l", "m",
       "n", "o", "p", "q", "r", "s", "t", "u", "v", "w", "x", "y", "z",
       "|" >>

CharSet == { Alphabet[i] : i \in 1..Len(Alphabet) }

OrdTable == [ c \in CharSet |-> CHOOSE i \in 1..Len(Alphabet) : Alphabet[i] = c ]

Ord(c) == OrdTable[c]

Digits == << "0", "1", "2", "3", "4", "5", "6", "7", "8", "9" >>

IsDigit(c) == Ord(c) >= Ord("0") /\ Ord(c) <= Ord("9")

DigitVal(c) == Ord(c) - Ord("0")

\* str.lower() on one character
LowerChar(c) ==
    IF Ord(c) >= Ord("A") /\ Ord(c) <= Ord("Z")
    THEN Alphabet[Ord(c) - Ord("A") + Ord("a")]
    ELSE c

\* str.lower()
Lower(s) == [ i \in 1..Len(s) |-> LowerChar(s[i]) ]

\* Python's None; a value no str equals (no character is "None")
None == << "None" >>

IsStr(v) == v # None

\* s[i:] starts with k
StartsWithAt(s, i, k) ==
    /\ i + Len(k) - 1 <= Len(s)
    /\ \A j \in 1..Len(k) : s[i + j - 1] = k[j]

RECURSIVE ReplaceFrom(_, _, _, _)
ReplaceFrom(s, i, k, v) ==
    IF i > Len(s) THEN << >>
    ELSE IF StartsWithAt(s, i, k)
         THEN v \o ReplaceFrom(s, i + Len(k), k, v)
         ELSE << s[i] >> \o ReplaceFrom(s, i + 1, k, v)

\* str.replace(k, v) for a non-empty k: every non-overlapping occurrence,
\* scanning from the left
Replace(s, k, v) == ReplaceFrom(s, 1, k, v)

RECURSIVE SplitFrom(_, _, _, _)
SplitFrom(s, i, sep, cur) ==
    IF i > Len(s) THEN << cur >>
    ELSE IF StartsWithAt(s, i, sep)
         THEN << cur >> \o SplitFrom(s, i + Len(sep), sep, << >>)
         ELSE SplitFrom(s, i + 1, sep, Append(cur, s[i]))

\* str.split(sep) for a non-empty sep: "" gives [""]
Split(s, sep) == SplitFrom(s, 1, sep, << >>)

Range(f) == { f[i] : i \in DOMAIN f }

\* the default separator of encode_labels' multi-label mode
DefaultSep == << "|" >>

\* str(i) for a natural number
RECURSIVE Str(_)
Str(n) == IF n < 10 THEN << Digits[n + 1] >>
          ELSE Str(n \div 10) \o << Digits[(n % 10) + 1] >>

(***************************************************************************)
(* mlsorted                                                                *)
(***************************************************************************)
\* the default group table of mlsorted, highest priority first
DefaultOrder ==
    <<
       << << "t", "r", "a", "i", "n" >> >>,
       << << "v", "a", "l" >>,
          << "v", "a", "l", "i", "d" >>,
          << "v", "a", "l", "i", "d", "a", "t", "i", "o", "n" >> >>,
       << << "d", "e", "v" >>,
          << "d", "e", "v", "e", "l", "o", "p" >>,
          << "d", "e", "v", "e", "o", "p", "m", "e", "n", "t" >> >>,
       << << "t", "e", "s", "t" >> >>,
       << << "e", "v", "a", "l" >>,
          << "e", "v", "a", "l", "u", "a", "t", "e" >>,
          << "e", "v", "a", "l", "u", "a", "t", "i", "o", "n" >> >>,
       << << "o", "k" >>,
          << "n", "e", "g" >>,
          << "n", "e", "g", "a" >>,
          << "n", "e", "g", "a", "t", "i", "v", "e" >> >>,
       << << "n", "g" >>,
          << "p", "o", "s" >>,
          << "p", "o", "s", "i" >>,
          << "p", "o", "s", "i", "t", "i", "v", "e" >> >> >>

\* dict[k] = v on an insertion-ordered dict kept as a sequence of <<k, v>>:
\* an existing key keeps its position and takes the new value
DictSet(d, k, v) ==
    IF \E i \in 1..Len(d) : d[i][1] = k
    THEN [ i \in 1..Len(d) |-> IF d[i][1] = k THEN << k, v >> ELSE d[i] ]
    ELSE Append(d, << k, v >>)

RECURSIVE DictUpdateList(_, _, _, _)
DictUpdateList(d, list, j, v) ==
    IF j > Len(list) THEN d
    ELSE DictUpdateList(DictSet(d, list[j], v), list, j + 1, v)

RECURSIVE OrderMapFrom(_, _, _)
OrderMapFrom(d, order, i) ==
    IF i > Len(order) THEN d
    ELSE OrderMapFrom(DictUpdateList(d, order[i], 1, Str(i - 1)), order, i + 1)

\* _order: token -> str(index of its group), in insertion order
OrderMap(order) == OrderMapFrom(<< >>, order, 1)

DefaultMap == OrderMap(DefaultOrder)

RECURSIVE TranslateFrom(_, _, _)
TranslateFrom(y, map, i) ==
    IF i > Len(map) THEN y
    ELSE TranslateFrom(Replace(y, map[i][1], map[i][2]), map, i + 1)

\* _translate: lower-case, then replace each token by its group digit, one
\* token after another in the map's insertion order
Translate(x, map) == TranslateFrom(Lower(x), map, 1)

(***************************************************************************)
(* natsort (default algorithm: unsigned integers).  The key of a str is    *)
(* the tuple of its maximal digit runs, as ints, and the text between      *)
(* them; a key that would start with a number gets "" put in front.        *)
(***************************************************************************)
NumComp(n) == [ num |-> TRUE, n |-> n, s |-> << >> ]

StrComp(s) == [ num |-> FALSE, n |-> 0, s |-> s ]

\* first index >= i where the run of (non-)digits starting at i ends
RECURSIVE RunEnd(_, _, _)
RunEnd(s, i, digit) ==
    IF i + 1 <= Len(s) /\ IsDigit(s[i + 1]) = digit
    THEN RunEnd(s, i + 1, digit)
    ELSE i

\* int() of the digit run s[i..j]
RECURSIVE IntOf(_, _, _)
IntOf(s, i, j) ==
    IF j < i THEN 0 ELSE IntOf(s, i, j - 1) * 10 + DigitVal(s[j])

RECURSIVE Chunks(_, _)
Chunks(s, i) ==
    IF i > Len(s) THEN << >>
    ELSE LET j == RunEnd(s, i, IsDigit(s[i]))
         IN  << IF IsDigit(s[i]) THEN NumComp(IntOf(s, i, j))
                ELSE StrComp(SubSeq(s, i, j)) >> \o Chunks(s, j + 1)

\* the key of plain sorted(): the whole string, digits compared as text
PlainKey(s) == IF s = << >> THEN << >> ELSE << StrComp(s) >>

NatKey(s) ==
    LET c == Chunks(s, 1)
    IN  IF c # << >> /\ c[1].num THEN << StrComp(<< >>) >> \o c ELSE c

\* a < b on str: code point by code point, a proper prefix is smaller
RECURSIVE StrLessFrom(_, _, _)
StrLessFrom(a, b, i) ==
    IF i > Len(b) THEN FALSE
    ELSE IF i > Len(a) THEN TRUE
    ELSE IF a[i] = b[i] THEN StrLessFrom(a, b, i + 1)
    ELSE Ord(a[i]) < Ord(b[i])

StrLess(a, b) == StrLessFrom(a, b, 1)

\* components at one position of two keys have the same type: text at the
\* odd positions, int at the even ones
CompLess(c, d) ==
    IF c.num /\ d.num THEN c.n < d.n
    ELSE IF ~c.num /\ ~d.num THEN StrLess(c.s, d.s)
    ELSE FALSE

\* tuple comparison k1 < k2
RECURSIVE KeyLessFrom(_, _, _)
KeyLessFrom(k1, k2, i) ==
    IF i > Len(k2) THEN FALSE
    ELSE IF i > Len(k1) THEN TRUE
    ELSE IF k1[i] = k2[i] THEN KeyLessFrom(k1, k2, i + 1)
    ELSE CompLess(k1[i], k2[i])

KeyLess(k1, k2) == KeyLessFrom(k1, k2, 1)

\* one step of the stable sort: e goes before the first element whose key
\* is greater than its own, so after every element with an equal key
InsertByKey(sorted, e) ==
    LET later == { i \in 1..Len(sorted) : KeyLess(e[1], sorted[i][1]) }
        p == IF later = {} THEN Len(sorted) + 1
             ELSE CHOOSE i \in later : \A j \in later : i <= j
    IN  SubSeq(sorted, 1, p - 1) \o << e >> \o SubSeq(sorted, p, Len(sorted))

RECURSIVE SortPairs(_, _)
SortPairs(pairs, n) ==
    IF n = 0 THEN << >>
    ELSE InsertByKey(SortPairs(pairs, n - 1), pairs[n])

(***************************************************************************)
(* Inputs                                                                  *)
(***************************************************************************)
\* 'NG<n>'
NG(n) == << "N", "G" >> \o Str(n)

\* the labels of the docstring example of mlsorted: 'OK', 'NG1', 'NG2', ...
NGLabels == { << "O", "K" >> } \cup { NG(n) : n \in 1..MaxN }

\* labels the callers are given: None, '', split/label folder names in
\* several spellings, and free text
LabelPool ==
    { None,
      << >>,
      << "o", "k" >>,
      << "n", "e", "g" >>,
      << "e", "v", "a", "l" >>,
      << "x", "o", "k" >>,
      << "d", "o", "g" >>,
      << "c", "a", "t" >>,
      << "d", "o", "g", "|", "c", "a", "t" >> }

\* the strings whose sort keys are tabulated: the labels and their tokens
KnownStrings ==
    UNION { Range(Split(l, DefaultSep)) \cup {l} : l \in (LabelPool \cup NGLabels) \ {None} }

\* the key function of natsorted(x, key=_translate): natsort's key of
\* _translate(x)
ComputeKey(x) == NatKey(Translate(x, DefaultMap))

\* the keys of the known strings, computed once
KeyTable == [ x \in KnownStrings |-> ComputeKey(x) ]

SortKey(x) == IF x \in KnownStrings THEN KeyTable[x] ELSE ComputeKey(x)

\* sorted(x, key=...): stable, elements with equal keys keep their input order
StableSort(x) ==
    LET pairs == [ i \in 1..Len(x) |-> << SortKey(x[i]), x[i] >> ]
        s == SortPairs(pairs, Len(x))
    IN  [ i \in 1..Len(x) |-> s[i][2] ]

Ok(v) == [ err |-> "", val |-> v ]

Raise(e) == [ err |-> e, val |-> << >> ]

\* mlsorted(x) with the default order; x is the iteration order of the
\* argument.  None.lower() raises AttributeError inside the key function.
Mlsorted(x) ==
    IF \E i \in 1..Len(x) : ~IsStr(x[i]) THEN Raise("AttributeError")
    ELSE Ok(StableSort(x))

(***************************************************************************)
(* encode_labels                                                           *)
(***************************************************************************)
MULTI_CLASS == { << "m", "u", "l", "t", "i", "c", "l", "a", "s", "s" >>,
                 << "m", "u", "l", "t", "i", "c", "l", "a", "s", "s", "e", "s" >>,
                 << "m", "c" >> }

MULTI_LABEL == { << "m", "u", "l", "t", "i", "l", "a", "b", "e", "l" >>,
                 << "m", "u", "l", "t", "i", "l", "a", "b", "e", "l", "s" >>,
                 << "m", "l" >> }

\* problem.replace('-', '').replace('_', '').replace(' ', '').lower()
NormProblem(problem) ==
    Lower(Replace(Replace(Replace(problem, << "-" >>, << >>),
                          << "_" >>, << >>),
                  << " " >>, << >>))

\* every order in which iterating over the set S can yield its elements
RECURSIVE Orders(_)
Orders(S) ==
    IF S = {} THEN { << >> }
    ELSE UNION { { << e >> \o o : o \in Orders(S \ {e}) } : e \in S }

\* {labs for item in labels for labs in item.split(sep)}
TokenSet(labels, sep) ==
    UNION { Range(Split(labels[i], sep)) : i \in 1..Len(labels) }

\* the set the code builds before it sorts it; iterating over it is what
\* fixes the order of elements whose sort keys are equal
ClassSet(labels, problem, sep) ==
    IF NormProblem(problem) \in MULTI_CLASS THEN Range(labels)
    ELSE IF NormProblem(problem) \in MULTI_LABEL
              /\ \A i \in 1..Len(labels) : IsStr(labels[i])
         THEN TokenSet(labels, sep)
    ELSE {}

\* encoder = {_class: code for code, _class in enumerate(classes)}
MakeEncoder(classes) ==
    [ c \in Range(classes) |-> (CHOOSE i \in 1..Len(classes) : classes[i] = c) - 1 ]

\* decoder = {v: k for k, v in encoder.items()}
MakeDecoder(encoder) ==
    [ v \in Range(encoder) |-> CHOOSE k \in DOMAIN encoder : encoder[k] = v ]

\* coded_labels = [encoder[x] for x in labels]
CodeMultiClass(labels, encoder) ==
    [ i \in 1..Len(labels) |-> encoder[labels[i]] ]

\* for lab in x.split(sep): labs[encoder[lab]] = 1
RECURSIVE SetOnes(_, _, _, _)
SetOnes(labs, toks, j, encoder) ==
    IF j > Len(toks) THEN labs
    ELSE SetOnes([ labs EXCEPT ![encoder[toks[j]] + 1] = 1 ], toks, j + 1, encoder)

\* the loop stopped after the first token of x
OneHotFirstToken(x, sep, encoder, n_classes) ==
    [ j \in 1..n_classes |-> IF encoder[Split(x, sep)[1]] + 1 = j THEN 1 ELSE 0 ]

\* labs = [0] * n_classes, then the loop over the tokens of x
OneHot(x, sep, encoder, n_classes) ==
    SetOnes([ j \in 1..n_classes |-> 0 ], Split(x, sep), 1, encoder)

CodeMultiLabel(labels, sep, encoder, n_classes) ==
    [ i \in 1..Len(labels) |-> OneHot(labels[i], sep, encoder, n_classes) ]

NoRet ==
    [ op |-> "none", err |-> "", problem |-> << >>, sorted |-> << >>,
      classes |-> << >>, coded |-> << >>, encoder |-> << >>, decoder |-> << >> ]

EncRaise(problem, e) ==
    [ NoRet EXCEPT !.op = "encode_labels", !.problem = problem, !.err = e ]

\* the part of encode_labels after the classes are sorted
EncodeWith(labels, problem, sep, classes) ==
    LET encoder == MakeEncoder(classes)
        decoder == MakeDecoder(encoder)
        coded == IF NormProblem(problem) \in MULTI_CLASS
                 THEN CodeMultiClass(labels, encoder)
                 ELSE CodeMultiLabel(labels, sep, encoder, Len(classes))
    IN  [ NoRet EXCEPT !.op = "encode_labels", !.problem = problem,
                       !.classes = classes, !.coded = coded,
                       !.encoder = encoder, !.decoder = decoder ]

\* what a bare `raise` raises: the exception the calling thread is handling,
\* RuntimeError when it is handling none (handling = "")
BareRaise(handling) == IF handling = "" THEN "RuntimeError" ELSE handling

\* encode_labels(labels, problem, sep) on a list; iter is the order in which
\* the set of classes is iterated, handling the exception the caller is
\* handling when it calls ("" for none).  None has neither lower() nor
\* split().
EncodeLabels(labels, problem, sep, iter, handling) ==
    LET p == NormProblem(problem)
    IN  IF p \in MULTI_CLASS
        THEN LET first == Mlsorted(iter)
             IN  IF first.err # "" THEN EncRaise(problem, first.err)
                 ELSE EncodeWith(labels, problem, sep, Mlsorted(first.val).val)
        ELSE IF p \in MULTI_LABEL
        THEN IF \E i \in 1..Len(labels) : ~IsStr(labels[i])
             THEN EncRaise(problem, "AttributeError")
             ELSE EncodeWith(labels, problem, sep, Mlsorted(iter).val)
        ELSE EncRaise(problem, BareRaise(handling))

(***************************************************************************)
(* Inputs (continued)                                                      *)
(***************************************************************************)
\* values of the `problem` argument
ModePool ==
    { << "m", "u", "l", "t", "i", "-", "c", "l", "a", "s", "s" >>,
      << "M", "u", "l", "t", "i", "_", "L", "a", "b", "e", "l", "s" >>,
      << "o", "n", "e", "-", "h", "o", "t" >>,
      << "m", "u", "l", "t", "i" >> }

\* what the caller of encode_labels may be doing: handling no exception, or
\* inside an except block
HandlingPool == { "", "KeyError" }

\* every list of at most n elements of S
ListsUpTo(S, n) == UNION { [ 1..k -> S ] : k \in 0..n }

(***************************************************************************)
(* ujutils.directory: the Directory class.  Paths are Python str values    *)
(* (sequences of characters), so that dirname, splitext, replace, strip    *)
(* and split act on them as the library code does.                         *)
(***************************************************************************)
\* most entries (files and directories) below the root of a modelled tree
MaxEntries == 4

RECURSIVE LStrip(_, _)
LStrip(s, chars) ==
    IF s # << >> /\ Head(s) \in chars THEN LStrip(Tail(s), chars) ELSE s

RECURSIVE RStrip(_, _)
RStrip(s, chars) ==
    IF s # << >> /\ s[Len(s)] \in chars
    THEN RStrip(SubSeq(s, 1, Len(s) - 1), chars)
    ELSE s

\* str.strip(chars): chars is the set of characters removed from both ends
Strip(s, chars) == RStrip(LStrip(s, chars), chars)

\* str.rfind(c) + 1 for one character c: 0 when c does not occur
RFind(s, c) ==
    LET at == { i \in 1..Len(s) : s[i] = c }
    IN  IF at = {} THEN 0 ELSE CHOOSE i \in at : \A j \in at : j <= i

\* str.replace(k, v, 1) for a non-empty k: the first occurrence only
ReplaceFirst(s, k, v) ==
    LET at == { i \in 1..Len(s) : StartsWithAt(s, i, k) }
    IN  IF at = {} THEN s
        ELSE LET i == CHOOSE x \in at : \A y \in at : x <= y
             IN  SubSeq(s, 1, i - 1) \o v \o SubSeq(s, i + Len(k), Len(s))

\* posixpath.dirname
Dirname(p) ==
    LET head == SubSeq(p, 1, RFind(p, "/"))
    IN  IF head # << >> /\ \E i \in 1..Len(head) : head[i] # "/"
        THEN RStrip(head, { "/" })
        ELSE head

\* posixpath.splitext(p)[-1]: the suffix from the last dot of the last
\* component, unless only dots precede that dot in the component
SplitextSuffix(p) ==
    LET sepIndex == RFind(p, "/")
        dotIndex == RFind(p, ".")
    IN  IF /\ dotIndex > sepIndex
           /\ \E j \in (sepIndex + 1)..(dotIndex - 1) : p[j] # "."
        THEN SubSeq(p, dotIndex, Len(p))
        ELSE << >>

\* misc._get_ext: os.path.splitext(x)[-1][1:].lower()
GetExt(x) ==
    LET suffix == SplitextSuffix(x)
    IN  Lower(SubSeq(suffix, 2, Len(suffix)))

\* a Python argument that may be None, a str or a list of str
PyNone == [ kind |-> "None", val |-> << >> ]

PyStr(s) == [ kind |-> "str", val |-> s ]

PyList(l) == [ kind |-> "list", val |-> l ]

\* misc._linl(x, sep, strip): None stays None, a list is returned as it
\* is, a str is stripped of sep, split on sep and each part stripped of the
\* characters of strip
Linl(x, sep, strip) ==
    IF x.kind = "None" THEN PyNone
    ELSE IF x.kind = "list" THEN x
    ELSE LET parts == Split(Strip(x.val, Range(sep)), sep)
         IN  PyList([ i \in 1..Len(parts) |-> Strip(parts[i], Range(strip)) ])

\* the strip arguments the code passes to _linl
StripDefault == << " " >>

StripDotSpace == << ".", " " >>

\* "lv" followed by the decimal digits of n, for f"lv{n}"
Lv(n) == << "l", "v" >> \o Str(n)

(***************************************************************************)
(* The file system below the root.  A node is a file or a directory, named *)
(* by the names on the way from the root to it.                            *)
(***************************************************************************)
\* os.path.abspath(root)
RootPath == << "/", "r" >>

N_train == << "t", "r", "a", "i", "n" >>

N_OK == << "O", "K" >>

N_a_jpg == << "a", ".", "j", "p", "g" >>

N_b_JPG == << "b", ".", "J", "P", "G" >>

N_v1_0 == << "v", "1", ".", "0" >>

N_README == << "R", "E", "A", "D", "M", "E" >>

FsNode(path, file, size, time) ==
    [ path |-> path, file |-> file, size |-> size, time |-> time ]

\* the nodes a modelled tree is made of: a two-level branch, a file with an
\* upper-case suffix, a directory with a dot in its name, a file without a
\* suffix
Universe ==
    { FsNode(<< N_train >>, FALSE, 0, 1),
      FsNode(<< N_train, N_OK >>, FALSE, 0, 2),
      FsNode(<< N_train, N_OK, N_a_jpg >>, TRUE, 3, 3),
      FsNode(<< N_train, N_b_JPG >>, TRUE, 4, 4),
      FsNode(<< N_v1_0 >>, FALSE, 0, 6),
      FsNode(<< N_README >>, TRUE, 7, 7) }

Front(s) == SubSeq(s, 1, Len(s) - 1)

\* a tree: every node but a top-level one has its parent directory in it
IsTree(T) ==
    \A n \in T :
        Len(n.path) > 1 =>
            \E d \in T : ~d.file /\ d.path = Front(n.path)

Trees == { T \in SUBSET Universe : Cardinality(T) <= MaxEntries /\ IsTree(T) }

\* the root is a directory holding a tree, a regular file, or nothing
FileSystems ==
    { [ root |-> "dir", nodes |-> T ] : T \in Trees }
        \cup { [ root |-> "file", nodes |-> {} ],
               [ root |-> "missing", nodes |-> {} ] }

\* the tree of the end-to-end example, root/train/OK/a.jpg,
\* root/train/NG/b.jpg, root/test/OK/c.png, with one more jpg file below
\* test
N_NG == << "N", "G" >>

N_test == << "t", "e", "s", "t" >>

N_b_jpg == << "b", ".", "j", "p", "g" >>

N_c_png == << "c", ".", "p", "n", "g" >>

N_d_jpg == << "d", ".", "j", "p", "g" >>

ExampleTree ==
    { FsNode(<< N_train >>, FALSE, 0, 1),
      FsNode(<< N_train, N_OK >>, FALSE, 0, 2),
      FsNode(<< N_train, N_OK, N_a_jpg >>, TRUE, 3, 3),
      FsNode(<< N_train, N_NG >>, FALSE, 0, 4),
      FsNode(<< N_train, N_NG, N_b_jpg >>, TRUE, 5, 5),
      FsNode(<< N_test >>, FALSE, 0, 6),
      FsNode(<< N_test, N_OK >>, FALSE, 0, 7),
      FsNode(<< N_test, N_OK, N_c_png >>, TRUE, 8, 8) }

ExampleUniverse ==
    ExampleTree \cup { FsNode(<< N_test, N_OK, N_d_jpg >>, TRUE, 9, 9) }

ExampleTrees == { T \in SUBSET ExampleUniverse : IsTree(T) }

\* the orders os.scandir may list the directories of a tree in: for each
\* directory some order of its entries, one directory after another
RECURSIVE RanksOf(_, _)
RanksOf(nodes, parents) ==
    IF parents = {} THEN { << >> }
    ELSE LET p == CHOOSE x \in parents : TRUE
             inside == { n \in nodes : Front(n.path) = p }
         IN  { o \o r : o \in Orders(inside), r \in RanksOf(nodes, parents \ {p}) }

ListingOrders(nodes) ==
    RanksOf(nodes, { << >> } \cup { n.path : n \in { x \in nodes : ~x.file } })

RECURSIVE JoinNames(_, _)
JoinNames(base, names) ==
    IF names = << >> THEN base
    ELSE JoinNames(base \o << "/" >> \o Head(names), Tail(names))

\* os.DirEntry of a node
DirEntry(n) ==
    [ path |-> JoinNames(RootPath, n.path), name |-> n.path[Len(n.path)],
      is_file |-> n.file, is_dir |-> ~n.file, size |-> n.size,
      time |-> n.time ]

\* os.scandir(parent): the entries of the directory `parent`, in the order
\* the operating system yields them (rank: some order of all the nodes)
OsScandir(parent, rank) ==
    LET InParent(n) == JoinNames(RootPath, Front(n.path)) = parent
        listed == SelectSeq(rank, InParent)
    IN  [ i \in 1..Len(listed) |-> DirEntry(listed[i]) ]

\* one element of self._records
Record(entry) ==
    [ reldir |-> Strip(ReplaceFirst(Dirname(entry.path), RootPath, << >>), { "/" }),
      filename |-> IF entry.is_file THEN entry.name ELSE None,
      filepath |-> entry.path,
      extension |-> GetExt(entry.path),
      is_file |-> entry.is_file,
      size |-> entry.size,
      atime |-> entry.time,
      mtime |-> entry.time,
      ctime |-> entry.time ]

\* the loop of _scandir without the descent into directories
ScanEachFlat(acc, entries, i, rank) ==
    [ acc EXCEPT !.records =
        @ \o [ k \in 1..(Len(entries) - i + 1) |-> Record(entries[i + k - 1]) ] ]

\* Directory._scandir(parent), acc holding self.entries and self._records
RECURSIVE Scandir(_, _, _)
RECURSIVE ScanEach(_, _, _, _)
Scandir(acc, parent, rank) ==
    LET entries == OsScandir(parent, rank)
    IN  ScanEach([ acc EXCEPT !.entries = @ \o entries ], entries, 1, rank)

ScanEach(acc, entries, i, rank) ==
    IF i > Len(entries) THEN acc
    ELSE LET entry == entries[i]
             acc1 == [ acc EXCEPT !.records = Append(@, Record(entry)) ]
             acc2 == IF entry.is_dir
                     THEN Scandir(acc1, entry.path, rank)
                     ELSE acc1
         IN  ScanEach(acc2, entries, i + 1, rank)

(***************************************************************************)
(* Directory.__init__, the hrchy setter, _filter and the table property.   *)
(***************************************************************************)
\* misc._gen_ordering_func(order) with the default order: the key function
\* of the table sort, the translation of the semantic ordering
GenOrderingFunc(x) == Translate(x, DefaultMap)

\* no sort: the record is put after the ones already there
InsertLast(sorted, r) == Append(sorted, r)

\* DataFrame.sort_values('reldir', key=...): ascending by the translated
\* reldir compared as str; rows with equal keys keep their order (numpy
\* sorts arrays of up to 16 elements by insertion)
InsertByReldir(sorted, r) ==
    LET later == { i \in 1..Len(sorted) :
                      StrLess(GenOrderingFunc(r.reldir),
                              GenOrderingFunc(sorted[i].reldir)) }
        p == IF later = {} THEN Len(sorted) + 1
             ELSE CHOOSE i \in later : \A j \in later : i <= j
    IN  SubSeq(sorted, 1, p - 1) \o << r >> \o SubSeq(sorted, p, Len(sorted))

RECURSIVE SortValues(_, _)
SortValues(records, n) ==
    IF n = 0 THEN << >>
    ELSE InsertByReldir(SortValues(records, n - 1), records[n])

Max(S) == CHOOSE x \in S : \A y \in S : y <= x

\* self._table['reldir'].str.split('/', expand=True).replace({'': None}):
\* one column per part of the longest split, None after a row's last part,
\* and None in place of ''
SplitLabels(table) ==
    LET parts == [ i \in 1..Len(table) |-> Split(table[i].reldir, << "/" >>) ]
        n_cols == IF table = << >> THEN 0
                  ELSE Max({ Len(parts[i]) : i \in 1..Len(table) })
    IN  [ i \in 1..Len(table) |->
            [ j \in 1..n_cols |->
                IF j <= Len(parts[i]) /\ parts[i][j] # << >>
                THEN parts[i][j]
                ELSE None ] ]

\* self._labels.shape[1]
NCols(labels) == IF labels = << >> THEN 0 ELSE Len(labels[1])

\* no Directory object
NoDir ==
    [ built |-> FALSE, entries |-> << >>, table |-> << >>, labels |-> << >>,
      columns |-> << >>, label_dtype |-> "object",
      exts |-> PyNone, exts_ignore |-> PyNone,
      subdirs |-> PyNone, subdirs_ignore |-> PyNone, hrchy |-> PyNone,
      include_meta |-> FALSE, relpath |-> FALSE, reset_index |-> TRUE ]

DirOk(obj) == [ err |-> "", obj |-> obj ]

DirRaise(obj, e) == [ err |-> e, obj |-> obj ]

\* the setter numbering the remaining columns from 'lv1' again
HrchySetterFromOne(obj, val) ==
    LET hrchy == Linl(val, << "/" >>, StripDefault)
        n_cols == NCols(obj.labels)
        n_hrchy == IF hrchy.kind = "None" THEN 0 ELSE Len(hrchy.val)
        columns == hrchy.val \o [ i \in 1..(n_cols - n_hrchy) |-> Lv(i) ]
        stored == [ obj EXCEPT !.hrchy = hrchy ]
    IN  IF Len(columns) # n_cols
        THEN DirRaise(stored, "ValueError")
        ELSE DirOk([ stored EXCEPT !.columns = columns ])

\* the hrchy setter: the names given, then 'lv<i>' for the columns left;
\* assigning a list of another length to DataFrame.columns raises ValueError
HrchySetter(obj, val) ==
    LET hrchy == Linl(val, << "/" >>, StripDefault)
        n_cols == NCols(obj.labels)
        n_hrchy == IF hrchy.kind = "None" THEN 0 ELSE Len(hrchy.val)
        columns == hrchy.val \o [ i \in 1..(n_cols - n_hrchy) |-> Lv(n_hrchy + i) ]
        stored == [ obj EXCEPT !.hrchy = hrchy ]
    IN  IF Len(columns) # n_cols
        THEN DirRaise(stored, "ValueError")
        ELSE DirOk([ stored EXCEPT !.columns = columns ])

\* a scan that takes a root it cannot list for an empty directory
ScanUnchecked(f, rank) ==
    LET acc == Scandir([ entries |-> << >>, records |-> << >> ], RootPath, rank)
        table == SortValues(acc.records, Len(acc.records))
    IN  IF acc.records = << >> THEN [ err |-> "KeyError" ]
        ELSE [ err |-> "", entries |-> acc.entries, table |-> table,
               labels |-> SplitLabels(table) ]

\* the scan of __init__ on the file system f, os.scandir listing by rank:
\* self._scandir(self.root), then the sorted self._table and self._labels
Scan(f, rank) ==
    LET acc == Scandir([ entries |-> << >>, records |-> << >> ], RootPath, rank)
        table == SortValues(acc.records, Len(acc.records))
    IN  IF f.root = "missing" THEN [ err |-> "FileNotFoundError" ]
        ELSE IF f.root = "file" THEN [ err |-> "NotADirectoryError" ]
        ELSE IF acc.records = << >> THEN [ err |-> "KeyError" ]
        ELSE [ err |-> "", entries |-> acc.entries, table |-> table,
               labels |-> SplitLabels(table) ]

\* Directory(root, hrchy, exts, exts_ignore, subdirs, subdirs_ignore,
\* include_meta), scanned being what the scan of the root gives
Construct(scanned, hrchy, exts, exts_ignore, subdirs, subdirs_ignore, include_meta) ==
    LET inputs == [ NoDir EXCEPT
                      !.exts = Linl(Linl(exts, << "," >>, StripDotSpace),
                                    << "," >>, StripDotSpace),
                      !.exts_ignore = Linl(Linl(exts_ignore, << "," >>, StripDotSpace),
                                           << "," >>, StripDotSpace),
                      !.subdirs = Linl(Linl(subdirs, << "," >>, StripDotSpace),
                                       << "," >>, StripDefault),
                      !.subdirs_ignore = Linl(Linl(subdirs_ignore, << "," >>, StripDotSpace),
                                              << "," >>, StripDefault),
                      !.include_meta = include_meta ]
        built == [ inputs EXCEPT !.built = TRUE, !.entries = scanned.entries,
                                 !.table = scanned.table,
                                 !.labels = scanned.labels ]
        named == HrchySetter(built, hrchy)
    IN  IF scanned.err # "" THEN DirRaise(NoDir, scanned.err)
        ELSE IF named.err # "" THEN DirRaise(NoDir, named.err)
        ELSE named

\* the value of a list-valued setting contains v
IsIn(v, setting) == \E i \in 1..Len(setting.val) : setting.val[i] = v

\* a filter in which an extension that exts includes is never ignored
FilterIncludeWins(obj, is_file) ==
    [ i \in 1..Len(obj.table) |->
        LET r == obj.table[i]
        IN  /\ is_file # "None" => (r.is_file <=> (is_file = "True"))
            /\ obj.exts.kind # "None" => IsIn(r.extension, obj.exts)
            /\ (obj.exts.kind = "None" /\ obj.exts_ignore.kind # "None")
                   => ~IsIn(r.extension, obj.exts_ignore)
            /\ obj.subdirs.kind # "None" => IsIn(r.reldir, obj.subdirs)
            /\ obj.subdirs_ignore.kind # "None" => ~IsIn(r.reldir, obj.subdirs_ignore) ]

\* Directory._filter(is_file): the product of the masks of the criteria
\* that are not None; is_file is "None", "True" or "False"
Filter(obj, is_file) ==
    [ i \in 1..Len(obj.table) |->
        LET r == obj.table[i]
        IN  /\ is_file # "None" => (r.is_file <=> (is_file = "True"))
            /\ obj.exts.kind # "None" => IsIn(r.extension, obj.exts)
            /\ obj.exts_ignore.kind # "None" => ~IsIn(r.extension, obj.exts_ignore)
            /\ obj.subdirs.kind # "None" => IsIn(r.reldir, obj.subdirs)
            /\ obj.subdirs_ignore.kind # "None" => ~IsIn(r.reldir, obj.subdirs_ignore) ]

BaseColumns == << "reldir", "filename", "filepath", "extension", "is_file" >>

MetaColumns == << "size", "atime", "mtime", "ctime" >>

\* one row of the returned frame
TableRow(obj, i, index) ==
    LET r == obj.table[i]
        filepath == IF obj.relpath
                    THEN Strip(ReplaceFirst(r.filepath, RootPath, << >>), { "/" })
                    ELSE r.filepath
        base == [ index |-> index, labels |-> obj.labels[i],
                  reldir |-> r.reldir, filename |-> r.filename,
                  filepath |-> filepath, extension |-> r.extension,
                  is_file |-> r.is_file ]
    IN  IF obj.include_meta
        THEN [ c \in DOMAIN base \cup { "size", "atime", "mtime", "ctime" } |->
                 IF c \in DOMAIN base THEN base[c] ELSE r[c] ]
        ELSE base

\* the rows of table whose mask is set, with their position in table
RECURSIVE Selected(_, _)
Selected(mask, i) ==
    IF i > Len(mask) THEN << >>
    ELSE (IF mask[i] THEN << i >> ELSE << >>) \o Selected(mask, i + 1)

\* what an operation returned: nothing, an error, the mask of
\* _filter(is_file) or the frame of .table
NoOut ==
    [ kind |-> "None", err |-> "", is_file |-> "None", label_columns |-> << >>,
      columns |-> << >>, rows |-> << >>, mask |-> << >> ]

\* the frame the table property returns
Table(obj) ==
    LET sel == Selected(Filter(obj, "True"), 1)
    IN  [ NoOut EXCEPT
            !.kind = "table",
            !.is_file = "True",
            !.label_columns = obj.columns,
            !.columns = IF obj.include_meta THEN BaseColumns \o MetaColumns
                        ELSE BaseColumns,
            !.rows = [ k \in 1..Len(sel) |->
                         TableRow(obj, sel[k],
                                  IF obj.reset_index THEN k - 1 ELSE sel[k] - 1) ] ]

(***************************************************************************)
(* The state machine: a caller holds a list of labels and calls mlsorted   *)
(* or encode_labels on it.                                                 *)
(***************************************************************************)
\* no Directory is in use
NoDirectory ==
    /\ fs = [ root |-> "missing", nodes |-> {} ]
    /\ dir = NoDir
    /\ out = NoOut

Init ==
    /\ arg \in ListsUpTo(LabelPool, MaxLen)
    /\ pc = "start"
    /\ ret = NoRet
    /\ NoDirectory

InitNG ==
    /\ arg \in ListsUpTo(NGLabels, MaxLen)
    /\ pc = "start"
    /\ ret = NoRet
    /\ NoDirectory

CallMlsorted ==
    /\ pc = "start"
    /\ LET r == Mlsorted(arg)
       IN  ret' = [ NoRet EXCEPT !.op = "mlsorted", !.err = r.err, !.sorted = r.val ]
    /\ pc' = "done"
    /\ UNCHANGED <<arg, fs, dir, out>>

CallEncodeLabels ==
    /\ pc = "start"
    /\ \E problem \in ModePool :
         \E iter \in Orders(ClassSet(arg, problem, DefaultSep)) :
            \E handling \in HandlingPool :
               \* only the bare raise of an unknown mode reads `handling`
               /\ handling # "" =>
                     NormProblem(problem) \notin (MULTI_CLASS \cup MULTI_LABEL)
               /\ ret' = EncodeLabels(arg, problem, DefaultSep, iter, handling)
    /\ pc' = "done"
    /\ UNCHANGED <<arg, fs, dir, out>>

Next == CallMlsorted \/ CallEncodeLabels

Spec == Init /\ [][Next]_vars

\* mlsorted alone, on lists of 'OK' and 'NG<n>' labels
SpecNG == InitNG /\ [][CallMlsorted]_vars

(***************************************************************************)
(* The state machine of a Directory: a caller constructs one on the file   *)
(* system fs, then assigns its settings, calls _filter and reads .table.   *)
(***************************************************************************)
S_jpg == << "j", "p", "g" >>

S_split == << "s", "p", "l", "i", "t" >>

\* values the caller passes as exts: 'jpg', '.jpg', 'JPG', ['jpg'], ['.jpg'],
\* ['JPG']
ExtsPool ==
    { PyNone,
      PyStr(S_jpg),
      PyStr(<< ".", "j", "p", "g" >>),
      PyStr(<< "J", "P", "G" >>),
      PyList(<< S_jpg >>),
      PyList(<< << ".", "j", "p", "g" >> >>),
      PyList(<< << "J", "P", "G" >> >>) }

\* as exts_ignore: ['jpg']
ExtsIgnorePool == { PyNone, PyList(<< S_jpg >>) }

\* as subdirs: 'train, train/OK'
SubdirsPool ==
    { PyNone,
      PyStr(<< "t", "r", "a", "i", "n", ",", " ",
               "t", "r", "a", "i", "n", "/", "O", "K" >>) }

\* as subdirs_ignore: ['train']
SubdirsIgnorePool == { PyNone, PyList(<< N_train >>) }

\* as hrchy: ['split'], 'split/label'
HrchyPool ==
    { PyNone,
      PyList(<< S_split >>),
      PyStr(<< "s", "p", "l", "i", "t", "/", "l", "a", "b", "e", "l" >>) }

\* the is_file argument of _filter
IsFilePool == { "None", "True", "False" }

OutRaise(e) == [ NoOut EXCEPT !.kind = "error", !.err = e ]

InitDir ==
    /\ arg = << >>
    /\ pc = "start"
    /\ ret = NoRet
    /\ fs \in FileSystems
    /\ dir = NoDir
    /\ out = NoOut

\* directory = Directory(root, hrchy, exts, ...)
New ==
    /\ pc = "start"
    /\ \E scanned \in { Scan(fs, rank) : rank \in ListingOrders(fs.nodes) } :
         \E hrchy \in HrchyPool, exts \in ExtsPool, exts_ignore \in ExtsIgnorePool,
            subdirs \in SubdirsPool, subdirs_ignore \in SubdirsIgnorePool,
            include_meta \in BOOLEAN :
            LET r == Construct(scanned, hrchy, exts, exts_ignore, subdirs,
                               subdirs_ignore, include_meta)
            IN  /\ dir' = r.obj
                /\ out' = IF r.err = "" THEN NoOut ELSE OutRaise(r.err)
                /\ pc' = IF r.err = "" THEN "built" ELSE "failed"
    /\ UNCHANGED <<arg, ret, fs>>

\* directory.exts = val
SetExts ==
    /\ pc = "built"
    /\ \E val \in ExtsPool :
         dir' = [ dir EXCEPT !.exts = Linl(val, << "," >>, StripDotSpace) ]
    /\ out' = NoOut
    /\ UNCHANGED <<arg, pc, ret, fs>>

\* directory.exts_ignore = val
SetExtsIgnore ==
    /\ pc = "built"
    /\ \E val \in ExtsIgnorePool :
         dir' = [ dir EXCEPT !.exts_ignore = Linl(val, << "," >>, StripDotSpace) ]
    /\ out' = NoOut
    /\ UNCHANGED <<arg, pc, ret, fs>>

\* directory.subdirs = val
SetSubdirs ==
    /\ pc = "built"
    /\ \E val \in SubdirsPool :
         dir' = [ dir EXCEPT !.subdirs = Linl(val, << "," >>, StripDefault) ]
    /\ out' = NoOut
    /\ UNCHANGED <<arg, pc, ret, fs>>

\* directory.subdirs_ignore = val
SetSubdirsIgnore ==
    /\ pc = "built"
    /\ \E val \in SubdirsIgnorePool :
         dir' = [ dir EXCEPT !.subdirs_ignore = Linl(val, << "," >>, StripDefault) ]
    /\ out' = NoOut
    /\ UNCHANGED <<arg, pc, ret, fs>>

\* directory.hrchy = val
SetHrchy ==
    /\ pc = "built"
    /\ \E val \in HrchyPool :
         LET r == HrchySetter(dir, val)
         IN  /\ dir' = r.obj
             /\ out' = IF r.err = "" THEN NoOut ELSE OutRaise(r.err)
    /\ UNCHANGED <<arg, pc, ret, fs>>

\* directory.include_meta = val
SetIncludeMeta ==
    /\ pc = "built"
    /\ \E val \in BOOLEAN : dir' = [ dir EXCEPT !.include_meta = val ]
    /\ out' = NoOut
    /\ UNCHANGED <<arg, pc, ret, fs>>

\* directory._filter(is_file)
CallFilter ==
    /\ pc = "built"
    /\ \E is_file \in IsFilePool :
         out' = [ NoOut EXCEPT !.kind = "mask", !.is_file = is_file,
                               !.mask = Filter(dir, is_file) ]
    /\ UNCHANGED <<arg, pc, ret, fs, dir>>

\* directory.table: the label columns of self._labels become categorical
ReadTable ==
    /\ pc = "built"
    /\ dir' = [ dir EXCEPT !.label_dtype = "category" ]
    /\ out' = Table(dir)
    /\ UNCHANGED <<arg, pc, ret, fs>>

NextDir ==
    \/ New
    \/ SetExts
    \/ SetExtsIgnore
    \/ SetSubdirs
    \/ SetSubdirsIgnore
    \/ SetHrchy
    \/ SetIncludeMeta
    \/ CallFilter
    \/ ReadTable

SpecDir == InitDir /\ [][NextDir]_vars

\* end to end: a Directory is constructed on a tree of the example and its
\* table is read
InitExample ==
    /\ arg = << >>
    /\ pc = "start"
    /\ ret = NoRet
    /\ fs \in { [ root |-> "dir", nodes |-> T ] : T \in ExampleTrees }
    /\ dir = NoDir
    /\ out = NoOut

NextExample == New \/ ReadTable

SpecExample == InitExample /\ [][NextExample]_vars


(***************************************************************************)
(* Vocabulary of the properties                                            *)
(***************************************************************************)
EmptyStr == << >>

Sorted == ret.op = "mlsorted" /\ ret.err = ""

\* s contains token k, letter case ignored
ContainsToken(s, k) == \E i \in 1..Len(s) : StartsWithAt(Lower(s), i, k)

\* s contains a token of group g of the default table (g = 1 for 'train')
HasGroup(s, g) == \E j \in 1..Len(DefaultOrder[g]) : ContainsToken(s, DefaultOrder[g][j])

Groups == 1..Len(DefaultOrder)

Matched(s) == \E g \in Groups : HasGroup(s, g)

\* s contains a token of some group i, and t contains tokens, all of them
\* of groups after i
GroupBefore(s, t) ==
    /\ Matched(t)
    /\ \E i \in Groups : HasGroup(s, i) /\ \A j \in Groups : HasGroup(t, j) => j > i

\* a comes no later than b in natural-sort order of the strings themselves
NaturalLeq(a, b) == ~KeyLess(NatKey(b), NatKey(a))

Count(seq, e) == Cardinality({ i \in 1..Len(seq) : seq[i] = e })

IsPermutation(a, b) ==
    /\ Len(a) = Len(b)
    /\ \A e \in Range(a) \cup Range(b) : Count(a, e) = Count(b, e)

LabelOK == << "O", "K" >>

\* the n of 'NG<n>'
NGNum(l) == CHOOSE n \in 1..MaxN : NG(n) = l

Encoded == ret.op = "encode_labels"

MultiClassCall == Encoded /\ NormProblem(ret.problem) \in MULTI_CLASS

MultiLabelCall == Encoded /\ NormProblem(ret.problem) \in MULTI_LABEL

InvalidModeCall == Encoded /\ NormProblem(ret.problem) \notin (MULTI_CLASS \cup MULTI_LABEL)

Blank(l) == l = None \/ l = EmptyStr

\* the distinct labels of the input that are neither None nor ''
RealLabels == { l \in Range(arg) : ~Blank(l) }

\* the exceptions that are ValueError or derive from it
ValueErrorClass ==
    { "ValueError", "UnicodeError", "UnicodeDecodeError", "UnicodeEncodeError",
      "UnicodeTranslateError" }

(***************************************************************************)
(* Properties                                                              *)
(***************************************************************************)
\* C1: in the result of mlsorted, a string that contains a token of group i
\* comes before every string that contains only tokens of later groups.
C1_GroupPriority ==
    Sorted =>
        \A p, q \in 1..Len(ret.sorted) :
            GroupBefore(ret.sorted[p], ret.sorted[q]) => p < q

\* C2: in the result of mlsorted every string without a token comes after
\* every string with one, and the strings without a token are in
\* natural-sort order among themselves.
C2_UnmatchedLast ==
    Sorted =>
        \A p, q \in 1..Len(ret.sorted) :
            /\ (Matched(ret.sorted[p]) /\ ~Matched(ret.sorted[q])) => p < q
            /\ (~Matched(ret.sorted[p]) /\ ~Matched(ret.sorted[q]) /\ p < q)
                   => NaturalLeq(ret.sorted[p], ret.sorted[q])

\* C3: two distinct strings with the same transformed key come out of
\* mlsorted in natural-sort order of the strings themselves, whatever the
\* order of the input.
C3_TieBreakNatural ==
    Sorted =>
        \A p, q \in 1..Len(ret.sorted) :
            ( /\ p < q
              /\ ret.sorted[p] # ret.sorted[q]
              /\ SortKey(ret.sorted[p]) = SortKey(ret.sorted[q]) )
                => NaturalLeq(ret.sorted[p], ret.sorted[q])

\* C4: on a list of 'OK' and 'NG<n>' labels mlsorted returns a permutation
\* of the list, every 'OK' first, then the 'NG<n>' by increasing n.
C4_OKThenNGByNumber ==
    ret.op = "mlsorted" =>
        /\ ret.err = ""
        /\ IsPermutation(arg, ret.sorted)
        /\ \A p, q \in 1..Len(ret.sorted) :
              p < q =>
                 /\ ret.sorted[q] = LabelOK => ret.sorted[p] = LabelOK
                 /\ (ret.sorted[p] # LabelOK /\ ret.sorted[q] # LabelOK)
                        => NGNum(ret.sorted[p]) <= NGNum(ret.sorted[q])

\* C4 witness: 'NG10', 'OK', 'NG2' given out of order, and sorted
C4_Witness ==
    /\ arg = << NG(10), LabelOK, NG(2) >>
    /\ ret.op = "mlsorted"
    /\ ret.sorted = << LabelOK, NG(2), NG(10) >>

\* C5: in multi-class mode the encoder's keys are the distinct labels that
\* are neither None nor '', its values are 0..n-1, each label's code is its
\* position in mlsorted(distinct labels), and coded_labels[k] is the code of
\* labels[k].
C5_MultiClassEncoder ==
    MultiClassCall =>
        /\ ret.err = ""
        /\ DOMAIN ret.encoder = RealLabels
        /\ Range(ret.encoder) = 0..(Cardinality(RealLabels) - 1)
        /\ \E iter \in Orders(RealLabels) :
              \A l \in RealLabels : Mlsorted(iter).val[ret.encoder[l] + 1] = l
        /\ Len(ret.coded) = Len(arg)
        /\ \A k \in 1..Len(arg) : ret.coded[k] = ret.encoder[arg[k]]

\* C6: in multi-class mode, for every label list (None and '' included),
\* the decoder is the inverse of the encoder, decoding the code of a label
\* gives the label back, and the encoder has as many entries as there are
\* distinct labels other than None and ''.
C6_RoundTrip ==
    MultiClassCall =>
        /\ ret.err = ""
        /\ DOMAIN ret.decoder = Range(ret.encoder)
        /\ \A l \in DOMAIN ret.encoder : ret.decoder[ret.encoder[l]] = l
        /\ \A v \in DOMAIN ret.decoder : ret.encoder[ret.decoder[v]] = v
        /\ \A l \in RealLabels :
              l \in DOMAIN ret.encoder /\ ret.decoder[ret.encoder[l]] = l
        /\ Cardinality(DOMAIN ret.encoder) = Cardinality(RealLabels)

\* an integer code
IsCode(v) == v \in Nat

\* C7: in multi-class mode the call does not fail on None or '', such a
\* label gets no integer code and is passed through unchanged at its
\* position, and coded_labels is as long as the input.
C7_BlankPassThrough ==
    MultiClassCall =>
        /\ ret.err = ""
        /\ Len(ret.coded) = Len(arg)
        /\ \A k \in 1..Len(arg) :
              Blank(arg[k]) => (~IsCode(ret.coded[k]) /\ ret.coded[k] = arg[k])

LabelDog == << "d", "o", "g" >>

LabelCat == << "c", "a", "t" >>

LabelDogCat == << "d", "o", "g", "|", "c", "a", "t" >>

\* the labels are all strings (None is not among them)
AllStr == \A i \in 1..Len(arg) : IsStr(arg[i])

C9_BlankAllZero ==
    MultiLabelCall =>
        /\ ret.err = ""
        /\ Range(ret.classes) =
              UNION { Range(Split(arg[i], DefaultSep)) :
                         i \in { k \in 1..Len(arg) : ~Blank(arg[k]) } }
        /\ \A k \in 1..Len(arg) :
              Blank(arg[k]) =>
                 /\ Len(ret.coded[k]) = Len(ret.classes)
                 /\ \A j \in 1..Len(ret.coded[k]) : ret.coded[k][j] = 0

\* C10: a call whose normalised mode is no multi-class or multi-label alias
\* fails with an error of the ValueError class and returns nothing.
C10_InvalidModeValueError ==
    InvalidModeCall =>
        /\ ret.err \in ValueErrorClass
        /\ ret.coded = << >> /\ ret.encoder = << >> /\ ret.decoder = << >>

\* C11: the encoder and decoder of a multi-class call depend only on the set
\* of distinct labels: whatever order the set is iterated in (and so for any
\* other input list with the same distinct labels), the call returns the
\* same two maps.
C11_EncoderDeterministic ==
    (MultiClassCall /\ ret.err = "") =>
        \A iter \in Orders(Range(arg)) :
            LET other == EncodeLabels(arg, ret.problem, DefaultSep, iter, "")
            IN  other.encoder = ret.encoder /\ other.decoder = ret.decoder

(***************************************************************************)
(* Vocabulary of the Directory properties.                                 *)
(***************************************************************************)
\* the non-empty '/'-separated segments of a relative directory
Segments(reldir) ==
    LET NonEmpty(p) == p # << >>
    IN  SelectSeq(Split(reldir, << "/" >>), NonEmpty)

Depth(reldir) == Len(Segments(reldir))

\* the deepest relative directory among the scanned records
MaxDepth == Max({ Depth(dir.table[i].reldir) : i \in 1..Len(dir.table) })

\* the hierarchy names the object holds
Names == dir.hrchy.val

\* 'lv<j>' for the columns k+1..n after the k names given
NamedColumns(names, n) ==
    [ j \in 1..n |-> IF j <= Len(names) THEN names[j] ELSE Lv(j) ]

Rows == 1..Len(dir.table)

AbsPaths == { JoinNames(RootPath, n.path) : n \in fs.nodes }

NodeAt(filepath) == CHOOSE n \in fs.nodes : JoinNames(RootPath, n.path) = filepath

\* the part of a name after its last dot, "" when it has no dot
NameSuffix(name) ==
    IF RFind(name, ".") = 0 THEN << >>
    ELSE SubSeq(name, RFind(name, ".") + 1, Len(name))

NotFoundErrors == { "FileNotFoundError", "NotADirectoryError" }

IsSet(setting) == setting.kind # "None"

\* the record r satisfies every criterion that is set, `want` being the
\* requested is_file
Meets(r, want) ==
    /\ want = "True" => r.is_file
    /\ want = "False" => ~r.is_file
    /\ IsSet(dir.exts) => r.extension \in Range(dir.exts.val)
    /\ ~(IsSet(dir.exts_ignore) /\ r.extension \in Range(dir.exts_ignore.val))
    /\ IsSet(dir.subdirs) => r.reldir \in Range(dir.subdirs.val)
    /\ ~(IsSet(dir.subdirs_ignore) /\ r.reldir \in Range(dir.subdirs_ignore.val))

\* some token of the setting names the extension e, whatever its case and
\* leading dots
NamesExt(setting, e) ==
    \E t \in Range(setting.val) : Lower(Strip(t, { ".", " " })) = Lower(e)

ReturnedPaths == { out.rows[k].filepath : k \in 1..Len(out.rows) }

\* C12: the label columns are the k hierarchy names held, followed by
\* 'lv{k+1}'..'lv{n}' when there are n > k label columns, and 'lv1'..'lv{n}'
\* when no names are held; after construction and after every assignment.
C12_LabelColumnNames ==
    (dir.built /\ (dir.hrchy.kind = "None" \/ Len(Names) < NCols(dir.labels))) =>
        dir.columns = NamedColumns(Names, NCols(dir.labels))

C12_Witness ==
    /\ dir.built
    /\ dir.label_dtype = "category"
    /\ Names = << S_split >>
    /\ NCols(dir.labels) = 2
    /\ dir.columns = << S_split, << "l", "v", "2" >> >>

\* C13: more hierarchy names than label columns never raise: construction
\* and assignment succeed and the first n names are the column names.
C13_ExtraNamesIgnored ==
    /\ out.err # "ValueError"
    /\ (dir.built /\ Len(Names) > NCols(dir.labels)) =>
          dir.columns = SubSeq(Names, 1, NCols(dir.labels))

\* C14: there are as many label columns as the deepest relative directory
\* has segments; a record of depth d has its segments in the first d
\* columns and null in the others.
C14_LabelColumnsByDepth ==
    dir.built =>
        /\ NCols(dir.labels) = MaxDepth
        /\ \A i \in Rows :
              LET segs == Segments(dir.table[i].reldir)
              IN  dir.labels[i] =
                     [ j \in 1..NCols(dir.labels) |->
                         IF j <= Len(segs) THEN segs[j] ELSE None ]

\* C15: constructing a Directory on an existing empty directory succeeds,
\* with no rows and no label columns.
C15_EmptyDirectory ==
    (fs.root = "dir" /\ fs.nodes = {} /\ pc # "start") =>
        /\ dir.built
        /\ out.kind # "error"
        /\ dir.table = << >>
        /\ NCols(dir.labels) = 0

\* C16: constructing a Directory on a root that does not exist or is not a
\* directory raises a not-found error and leaves no object, entries or
\* table.
C16_BadRootFails ==
    (fs.root # "dir" /\ pc # "start") =>
        /\ pc = "failed"
        /\ out.kind = "error"
        /\ out.err \in NotFoundErrors
        /\ dir = NoDir

C16_Witness ==
    /\ fs.root = "file"
    /\ pc = "failed"
    /\ out.err = "NotADirectoryError"

\* C17: the scan records every file and directory below the root exactly
\* once, and the reldir of a record has as many segments as the node's
\* parent is levels below the root.
C17_ScanComplete ==
    dir.built =>
        /\ Len(dir.entries) = Cardinality(fs.nodes)
        /\ { dir.entries[i].path : i \in 1..Len(dir.entries) } = AbsPaths
        /\ Len(dir.table) = Cardinality(fs.nodes)
        /\ { dir.table[i].filepath : i \in Rows } = AbsPaths
        /\ \A i \in Rows :
              LET n == NodeAt(dir.table[i].filepath)
              IN  /\ Depth(dir.table[i].reldir) = Len(n.path) - 1
                  /\ dir.table[i].is_file = n.file

C17_Witness ==
    /\ dir.built
    /\ Cardinality(fs.nodes) = MaxEntries
    /\ \E i \in Rows :
          /\ dir.table[i].filename = N_a_jpg
          /\ dir.table[i].reldir = << "t", "r", "a", "i", "n", "/", "O", "K" >>
    /\ \E i \in Rows : dir.table[i].filename = N_README

\* C18: the extension of a record is the lower-cased suffix of the name
\* without its dot, and empty for a name without suffix and for every
\* directory.
C18_Extension ==
    dir.built =>
        \A i \in 1..Len(dir.entries) :
            LET e == dir.entries[i]
                r == CHOOSE x \in Range(dir.table) : x.filepath = e.path
            IN  r.extension = IF e.is_file THEN Lower(NameSuffix(e.name))
                              ELSE << >>

\* C19: _filter selects a record exactly when it meets every criterion
\* that is set; a value in both an include and an ignore list is excluded.
C19_FilterConjunction ==
    out.kind = "mask" =>
        /\ Len(out.mask) = Len(dir.table)
        /\ \A i \in Rows : out.mask[i] <=> Meets(dir.table[i], out.is_file)

C19_Witness ==
    /\ out.kind = "mask"
    /\ out.is_file = "True"
    /\ dir.exts.val = << S_jpg >>
    /\ dir.exts_ignore.kind = "None"
    /\ dir.subdirs.kind = "list"
    /\ dir.subdirs_ignore.val = << N_train >>
    /\ \E i \in Rows : out.mask[i] /\ dir.table[i].filename = N_a_jpg
    /\ \E i \in Rows : ~out.mask[i] /\ dir.table[i].filename = N_b_JPG

\* C20: an extension filter selects by extension whatever the case and the
\* leading dots of its tokens, given as a str or as a list: with no
\* subdirectory filter the table holds exactly the files whose extension
\* exts names and exts_ignore does not.
C20_ExtsAnyForm ==
    (out.kind = "table" /\ ~IsSet(dir.subdirs) /\ ~IsSet(dir.subdirs_ignore)) =>
        \A i \in Rows :
            LET r == dir.table[i]
            IN  r.filepath \in ReturnedPaths <=>
                   /\ r.is_file
                   /\ IsSet(dir.exts) => NamesExt(dir.exts, r.extension)
                   /\ ~(IsSet(dir.exts_ignore) /\ NamesExt(dir.exts_ignore, r.extension))

\* the files below the root whose name has the suffix e, in any case
FilesWithSuffix(e) ==
    { JoinNames(RootPath, n.path) :
        n \in { x \in fs.nodes : x.file /\ Lower(NameSuffix(x.path[Len(x.path)])) = e } }

\* the Directory was given exts=['jpg'] and no other filter
ExtsJpgOnly ==
    /\ dir.exts = PyList(<< S_jpg >>)
    /\ ~IsSet(dir.exts_ignore)
    /\ ~IsSet(dir.subdirs)
    /\ ~IsSet(dir.subdirs_ignore)

OutRows == 1..Len(out.rows)

\* C21: the table of Directory(root, exts=['jpg']) has exactly one row for
\* each file below root whose extension is 'jpg' and no other row; the
\* labels of a row are the segments of the file's directory; every row
\* whose first level is 'train' comes before every row whose first level is
\* 'test'.
C21_EndToEnd ==
    (out.kind = "table" /\ ExtsJpgOnly) =>
        /\ ReturnedPaths = FilesWithSuffix(S_jpg)
        /\ Len(out.rows) = Cardinality(FilesWithSuffix(S_jpg))
        /\ \A k \in OutRows :
              LET segs == Segments(Strip(ReplaceFirst(Dirname(out.rows[k].filepath),
                                                     RootPath, << >>), { "/" }))
              IN  /\ out.rows[k].is_file
                  /\ \A j \in 1..Len(out.rows[k].labels) :
                        out.rows[k].labels[j] =
                           IF j <= Len(segs) THEN segs[j] ELSE None
                  /\ Len(segs) <= Len(out.rows[k].labels)
        /\ \A k1, k2 \in OutRows :
              (out.rows[k1].labels[1] = N_train /\ out.rows[k2].labels[1] = N_test)
                 => k1 < k2

C21_Witness ==
    /\ out.kind = "table"
    /\ ExtsJpgOnly
    /\ fs.nodes = ExampleTree
    /\ Len(out.rows) = 2
    /\ out.rows[1].filename = N_a_jpg
    /\ out.rows[2].filename = N_b_jpg
    /\ out.rows[1].labels[1] = N_train
    /\ out.rows[2].labels[1] = N_train

\* C22: the columns of the table are the label columns, then 'filename',
\* then 'filepath' and nothing else; with include_meta they are followed
\* only by the metadata columns.
C22_TableColumns ==
    out.kind = "table" =>
        /\ out.label_columns = dir.columns
        /\ Len(out.columns) >= 2
        /\ out.columns[1] = "filename"
        /\ out.columns[2] = "filepath"
        /\ { out.columns[j] : j \in 3..Len(out.columns) } =
              IF dir.include_meta THEN Range(MetaColumns) ELSE {}

\* a Directory freshly constructed over the same tree, listed in the same
\* order, with the settings the object holds now
Fresh ==
    Construct([ err |-> "", entries |-> dir.entries, table |-> dir.table,
                labels |-> dir.labels ],
              dir.hrchy, dir.exts, dir.exts_ignore, dir.subdirs,
              dir.subdirs_ignore, dir.include_meta)

\* C23: a read of table returns exactly what a freshly constructed
\* Directory over the same tree with the current settings would return,
\* whatever assignments and reads came before.
C23_TableOfCurrentSettings ==
    out.kind = "table" =>
        /\ Fresh.err = ""
        /\ out = Table(Fresh.obj)

====
